---- MODULE Spec2Model ----
(***************************************************************************)
(* A model of the two batch pipelines of the image_processing repository:  *)
(*   - input/image_processing.py : the normalization run (main,            *)
(*     process_directory, process_image, convert_to_supported_format, the  *)
(*     metadata ledger and the summary file), specification Spec;          *)
(*   - anyalize.py : the listing run (main, process_folder,                *)
(*     get_sku_from_keywords, upload_to_ebay), specification SpecListing.  *)
(* Strings are sequences of one-character strings, so that lower(),        *)
(* splitext(), endswith(), sorted() and the f-string number formats are    *)
(* computed as Python computes them.                                       *)
(***************************************************************************)
EXTENDS Integers, Sequences, FiniteSets, TLC

VARIABLES
  \* ---- input/image_processing.py -------------------------------------
  phase,                    \* "walk": main's for loop, between directories;
                            \* "dir": inside process_directory's for loop;
                            \* "done": create_summary_file has run
  numDirs,                  \* len(dirs), main line 168
  dirIdx,                   \* how many elements of dirs the loop has taken
  product_id,               \* main's product_id
  processed_product_count,  \* main's processed_product_count
  entries,                  \* the names os.listdir(product_dir) finds in the current directory
  listing,                  \* the sequence process_directory's for loop runs over
  pos,                      \* position of process_directory's for loop in listing
  image_index,              \* process_directory's image_index
  ledger,                   \* rows of metadata/processed_images.csv below the header
  outFiles,                 \* names of the PNG files that exist under the output root
  summary,                  \* product count in metadata/summary.txt, NoSummary before
  errors,                   \* number of logging.error calls of the run
  \* history of the run, read by the properties only
  usedIds,                  \* usedIds[n]: product_id passed to process_directory for dirs[n]
  ledgerStart,              \* Len(ledger) when the current directory was entered
  filesStart,               \* outFiles when the current directory was entered
  dirOk,                    \* source files of the current directory for which process_image returned True
  attempts,                 \* number of process_image calls made for the current directory
  lastRet,                  \* what the last process_image call returned and did
  yielded,                  \* number of directories left with at least one True process_image
  raised,                   \* whether the current/last directory ended in an exception
  \* ---- anyalize.py ----------------------------------------------------
  lphase,                   \* where anyalize.main stands: "walk" between folders, "analyze",
                            \* "generate", "upload" inside process_folder, "done"
  numFolders,               \* len(dirs), anyalize.main line 178
  folderIdx,                \* how many folders the loop has taken
  mapping,                  \* the module-level dict CATEGORY_SKU_MAPPING
  folder,                   \* os.listdir(folder_path) of the last folder taken
  keywords,                 \* keywords computed for the last folder
  sku,                      \* sku computed for the last folder, NoSku if none
  listings,                 \* SKUs s for which <s>_listing.html exists in output_dir
  flog,                     \* what the last folder's processing did (calls, log lines)
  upload,                   \* how upload_to_ebay ended for the last folder
  skipped                   \* number of folders process_folder has skipped

nvars == <<phase, numDirs, dirIdx, product_id, processed_product_count, entries, listing, pos,
           image_index, ledger, outFiles, summary, errors, usedIds, ledgerStart,
           filesStart, dirOk, attempts, lastRet, yielded, raised>>
lvars == <<lphase, numFolders, folderIdx, mapping, folder, keywords, sku, listings,
           flog, upload, skipped>>
vars == <<nvars, lvars>>

----------------------------------------------------------------------------
\* Bounds of the model.

\* Largest number of product directories os.walk discovers.
MaxDirs == 2

----------------------------------------------------------------------------
\* Python string primitives.

UpperLetters == <<"A","B","C","D","E","F","G","H","I","J","K","L","M",
                  "N","O","P","Q","R","S","T","U","V","W","X","Y","Z">>
LowerLetters == <<"a","b","c","d","e","f","g","h","i","j","k","l","m",
                  "n","o","p","q","r","s","t","u","v","w","x","y","z">>
DigitChars == <<"0","1","2","3","4","5","6","7","8","9">>

\* The characters in use, in increasing code point order (space 32, & 38, - 45,
\* . 46, 0-9, A-Z, _ 95, a-z): Python compares strings by code point.
CodeOrder == <<" ", "&", "-", ".">> \o DigitChars \o UpperLetters \o <<"_">> \o LowerLetters

Ord(c) == CHOOSE i \in 1..Len(CodeOrder) : CodeOrder[i] = c

\* the lower-case letter of every upper-case letter
LowerOf ==
    [A |-> "a", B |-> "b", C |-> "c", D |-> "d", E |-> "e", F |-> "f", G |-> "g",
     H |-> "h", I |-> "i", J |-> "j", K |-> "k", L |-> "l", M |-> "m", N |-> "n",
     O |-> "o", P |-> "p", Q |-> "q", R |-> "r", S |-> "s", T |-> "t", U |-> "u",
     V |-> "v", W |-> "w", X |-> "x", Y |-> "y", Z |-> "z"]

\* str.lower() on one character: only A-Z change
LowerChar(c) == IF c \in DOMAIN LowerOf THEN LowerOf[c] ELSE c

\* str.lower()
Lower(s) == [i \in 1..Len(s) |-> LowerChar(s[i])]

\* a < b for Python strings
StrLess(a, b) ==
  \/ /\ Len(a) < Len(b)
     /\ \A i \in 1..Len(a) : a[i] = b[i]
  \/ \E i \in 1..Len(a) :
       /\ i <= Len(b)
       /\ \A j \in 1..(i-1) : a[j] = b[j]
       /\ Ord(a[i]) < Ord(b[i])

\* sorted(S) for a collection of distinct strings
RECURSIVE sorted(_)
sorted(S) ==
  IF S = {} THEN <<>>
  ELSE LET m == CHOOSE x \in S : \A y \in S \ {x} : StrLess(x, y)
       IN <<m>> \o sorted(S \ {m})

\* str.endswith(suffix)
EndsWith(s, suffix) ==
  /\ Len(suffix) <= Len(s)
  /\ SubSeq(s, Len(s) - Len(suffix) + 1, Len(s)) = suffix

\* os.path.splitext(name)[1] for a name without directory separators: the text
\* from the last dot on, or "" when there is no dot or only dots come before it.
SplitExt(name) ==
  LET dots == {i \in 1..Len(name) : name[i] = "."}
  IN IF dots = {} THEN <<>>
     ELSE LET d == CHOOSE i \in dots : \A j \in dots : j <= i
          IN IF \E k \in 1..(d-1) : name[k] # "."
             THEN SubSeq(name, d, Len(name))
             ELSE <<>>

\* os.path.splitext(name)[0]
SplitRoot(name) == SubSeq(name, 1, Len(name) - Len(SplitExt(name)))

\* the decimal digits of n >= 0, as format(n, "d") writes them
RECURSIVE Decimal(_)
Decimal(n) ==
  IF n < 10 THEN <<DigitChars[n + 1]>>
  ELSE Decimal(n \div 10) \o <<DigitChars[(n % 10) + 1]>>

\* format(n, "0<w>d"): zero-padded on the left to at least w characters
RECURSIVE PadLeft(_, _)
PadLeft(s, w) == IF Len(s) >= w THEN s ELSE PadLeft(<<"0">> \o s, w)

ZeroPad(n, w) == PadLeft(Decimal(n), w)

----------------------------------------------------------------------------
\* Values of the listing run's variables before anything is computed.

\* no SKU computed for the folder yet
NoSku == ""

\* nothing logged and no external call made for the folder yet
NoLog == [lines |-> <<>>, vision |-> 0, text |-> 0, ebay |-> 0, sdk |-> "none",
          listingsBefore |-> {}]

----------------------------------------------------------------------------
\* input/image_processing.py

SUPPORTED_IMAGE_TYPES == { <<".","h","e","i","c">>, <<".","j","p","g">>, <<".","j","p","e","g">>,
                           <<".","p","n","g">>, <<".","t","i","f","f">> }

TARGET_WIDTH == 1024
TARGET_HEIGHT == 768

\* metadata/summary.txt does not exist yet
NoSummary == <<>>

\* The file names a product directory can hold: "B.PNG" (supported once
\* lower-cased), "N.txt" (unsupported: convert_to_supported_format is tried on
\* it) and "a.jpg" (supported). sorted() puts them in this order, upper case
\* first. A directory holds any subset of them.
InputNames == { <<"B",".","P","N","G">>, <<"N",".","t","x","t">>, <<"a",".","j","p","g">> }

\* What the environment can make of one convert_to_supported_format call:
\* Image.open and image.save succeed, or one of them raises.
ConvertOutcomes == {"ok", "raises"}

\* What the environment can make of one process_image call: every step
\* succeeds; a step before resized_image_pil.save raises (decoding, rotation,
\* OpenCV, watermark); or the file is saved and update_metadata_file raises.
ImageOutcomes == {"ok", "fails_before_save", "fails_at_append"}

\* f"Product_{product_id:05d}_Image_{image_index:02d}.png"
OutputFileName(pid, idx) ==
  <<"P","r","o","d","u","c","t","_">> \o ZeroPad(pid, 5) \o <<"_","I","m","a","g","e","_">> \o ZeroPad(idx, 2) \o <<".","p","n","g">>

\* update_metadata_file: one row appended to the CSV
update_metadata_file(rows, pid, file_name, image_type, width, height) ==
  Append(rows, [ProductID |-> pid, FileName |-> file_name, Type |-> image_type,
                Width |-> width, Height |-> height])

\* convert_to_supported_format. The except clause names UnidentifiedImageError,
\* which the module never imports: when Image.open or image.save raises, looking
\* the name up raises NameError, which leaves the function. The function returns
\* a path when nothing raises and never returns None.
convert_to_supported_format(outcome, file) ==
  IF outcome = "ok"
  THEN [raised |-> FALSE, path |-> SplitRoot(file) \o <<".","p","n","g">>]
  ELSE [raised |-> TRUE, path |-> <<>>]

\* process_image: the files, the ledger, the error count and the return value
\* after the call. The file is saved (line 110) before the row is appended
\* (line 112); any exception is caught, logged and turned into False.
process_image(outcome, files, rows, pid, idx, image_type) ==
  LET output_file_name == OutputFileName(pid, idx)
  IN CASE outcome = "ok" ->
            [ret |-> TRUE, files |-> files \cup {output_file_name},
             rows |-> update_metadata_file(rows, pid, output_file_name, image_type,
                                           TARGET_WIDTH, TARGET_HEIGHT),
             errors |-> 0]
       [] outcome = "fails_before_save" ->
            [ret |-> FALSE, files |-> files, rows |-> rows, errors |-> 1]
       [] outcome = "fails_at_append" ->
            [ret |-> FALSE, files |-> files \cup {output_file_name}, rows |-> rows,
             errors |-> 1]

\* NextImageIndex with the index advanced after a failed call too
NextImageIndexAlways(idx, ret) == idx + 1

\* image_index after one process_image call (lines 143-144)
NextImageIndex(idx, ret) == IF ret THEN idx + 1 ELSE idx

\* DirectoryListing with a minimum of two entries, below which the directory
\* is skipped
DirectoryListingMinimumTwo(names) == IF Cardinality(names) < 2 THEN <<>> ELSE sorted(names)

\* sorted(os.listdir(product_dir)), the sequence the for loop runs over (line 133)
DirectoryListing(names) == sorted(names)

\* process_directory's return value (lines 146-149)
ProcessedCount(idx) == IF idx > 1 THEN 1 ELSE 0

\* anyalize.py is not running.
ListingIdle ==
  /\ lphase = "off"
  /\ numFolders = 0
  /\ folderIdx = 0
  /\ mapping = << >>
  /\ folder = {}
  /\ keywords = <<>>
  /\ sku = NoSku
  /\ listings = {}
  /\ flog = NoLog
  /\ upload = "none"
  /\ skipped = 0

\* main up to the for loop: both roots exist, initialize_metadata_file has
\* written the header (lines 157-166).
NormalizationStart ==
  /\ dirIdx = 0
  /\ product_id = 1
  /\ processed_product_count = 0
  /\ entries = {}
  /\ listing = <<>>
  /\ pos = 1
  /\ image_index = 1
  /\ ledger = <<>>
  /\ outFiles = {}
  /\ summary = NoSummary
  /\ errors = 0
  /\ usedIds = <<>>
  /\ ledgerStart = 0
  /\ filesStart = {}
  /\ dirOk = <<>>
  /\ attempts = 0
  /\ lastRet = [ret |-> "none", files |-> {}, rows |-> 0]
  /\ yielded = 0
  /\ raised = FALSE

Init ==
  /\ phase = "walk"
  /\ numDirs \in 0..MaxDirs
  /\ NormalizationStart
  /\ ListingIdle

\* main takes the next element of dirs and calls process_directory, which
\* lists the directory (lines 170-172, 130-133).
StartDirectory ==
  /\ phase = "walk"
  /\ dirIdx < numDirs
  /\ \E names \in SUBSET InputNames :
       /\ entries' = names
       /\ listing' = DirectoryListing(names)
  /\ phase' = "dir"
  /\ dirIdx' = dirIdx + 1
  /\ pos' = 1
  /\ image_index' = 1
  /\ usedIds' = Append(usedIds, product_id)
  /\ ledgerStart' = Len(ledger)
  /\ filesStart' = outFiles
  /\ dirOk' = <<>>
  /\ attempts' = 0
  /\ raised' = FALSE
  /\ UNCHANGED <<numDirs, product_id, processed_product_count, ledger, outFiles,
                 summary, errors, lastRet, yielded, lvars>>

\* The call of process_image for one file and the update of image_index
\* (lines 143-144).
CallProcessImage(file, file_ext) ==
  \E outcome \in ImageOutcomes :
    LET r == process_image(outcome, outFiles, ledger, product_id, image_index, file_ext)
    IN /\ outFiles' = r.files
       /\ ledger' = r.rows
       /\ errors' = errors + r.errors
       /\ image_index' = NextImageIndex(image_index, r.ret)
       /\ lastRet' = [ret |-> IF r.ret THEN "True" ELSE "False", files |-> outFiles, rows |-> Len(ledger)]
       /\ dirOk' = IF r.ret THEN Append(dirOk, file) ELSE dirOk
       /\ attempts' = attempts + 1
       /\ pos' = pos + 1
       /\ UNCHANGED <<phase, raised, yielded>>

\* An exception leaves process_directory: main's except clause logs it and the
\* for loop goes on with the next directory; lines 172-174 are not run
\* (lines 175-176).
DirectoryRaises ==
  /\ phase' = "walk"
  /\ raised' = TRUE
  /\ errors' = errors + 1
  /\ yielded' = IF dirOk # <<>> THEN yielded + 1 ELSE yielded
  /\ UNCHANGED <<outFiles, ledger, image_index, lastRet, dirOk, attempts, pos>>

\* One iteration of process_directory's for loop (lines 133-144).
ProcessFile ==
  /\ phase = "dir"
  /\ pos <= Len(listing)
  /\ LET file == listing[pos]
         file_ext == SplitExt(Lower(file))
     IN IF file_ext \notin SUPPORTED_IMAGE_TYPES
        THEN \E conv \in ConvertOutcomes :
               LET c == convert_to_supported_format(conv, file)
               IN IF c.raised
                  THEN DirectoryRaises
                  ELSE CallProcessImage(file, <<".","p","n","g">>)
        ELSE CallProcessImage(file, file_ext)
  /\ UNCHANGED <<numDirs, dirIdx, product_id, processed_product_count, entries, listing,
                 summary, usedIds, ledgerStart, filesStart, lvars>>

\* process_directory returns and main adds its count and advances product_id
\* (lines 146-149, 173-174).
EndDirectory ==
  /\ phase = "dir"
  /\ pos > Len(listing)
  /\ processed_product_count' = processed_product_count + ProcessedCount(image_index)
  /\ product_id' = product_id + 1
  /\ phase' = "walk"
  /\ yielded' = IF dirOk # <<>> THEN yielded + 1 ELSE yielded
  /\ UNCHANGED <<numDirs, dirIdx, entries, listing, pos, image_index, ledger, outFiles, summary,
                 errors, usedIds, ledgerStart, filesStart, dirOk, attempts, lastRet,
                 raised, lvars>>

\* create_summary_file after the for loop (line 178)
CreateSummary ==
  /\ phase = "walk"
  /\ dirIdx = numDirs
  /\ summary' = <<processed_product_count>>
  /\ phase' = "done"
  /\ UNCHANGED <<numDirs, dirIdx, product_id, processed_product_count, entries, listing, pos,
                 image_index, ledger, outFiles, errors, usedIds, ledgerStart,
                 filesStart, dirOk, attempts, lastRet, yielded, raised, lvars>>

Next == StartDirectory \/ ProcessFile \/ EndDirectory \/ CreateSummary

Spec == Init /\ [][Next]_vars

----------------------------------------------------------------------------
\* anyalize.py

\* Largest number of product folders anyalize.main finds.
MaxFolders == 2
\* Largest number of label names analyze_images_with_rekognition returns for
\* the two images together.
MaxKeywords == 2

\* The entries of the dict literal CATEGORY_SKU_MAPPING, as <<key, value>>.
CategoryTable == <<
  \* 'fine jewelry': '4196'
  << <<"f","i","n","e"," ","j","e","w","e","l","r","y">>,
     "4196" >>,
  \* 'engagement & wedding': '1643'
  << <<"e","n","g","a","g","e","m","e","n","t"," ","&"," ","w","e","d","d","i","n","g">>,
     "1643" >>,
  \* 'fine earrings': '10986'
  << <<"f","i","n","e"," ","e","a","r","r","i","n","g","s">>,
     "10986" >>,
  \* 'fine necklaces & pendants': '164329'
  << <<"f","i","n","e"," ","n","e","c","k","l","a","c","e","s"," ","&"," ","p","e","n","d","a","n","t","s">>,
     "164329" >>,
  \* 'fine rings': '164343'
  << <<"f","i","n","e"," ","r","i","n","g","s">>,
     "164343" >>,
  \* 'fine bracelets': '164315'
  << <<"f","i","n","e"," ","b","r","a","c","e","l","e","t","s">>,
     "164315" >>,
  \* 'fashion jewelry': '10968'
  << <<"f","a","s","h","i","o","n"," ","j","e","w","e","l","r","y">>,
     "10968" >>,
  \* 'fashion bracelets': '50637'
  << <<"f","a","s","h","i","o","n"," ","b","r","a","c","e","l","e","t","s">>,
     "50637" >>,
  \* 'fashion earrings': '50647'
  << <<"f","a","s","h","i","o","n"," ","e","a","r","r","i","n","g","s">>,
     "50647" >>,
  \* 'fashion necklaces & pendants': '155101'
  << <<"f","a","s","h","i","o","n"," ","n","e","c","k","l","a","c","e","s"," ","&"," ","p","e","n","d","a","n","t","s">>,
     "155101" >>,
  \* 'fashion rings': '67681'
  << <<"f","a","s","h","i","o","n"," ","r","i","n","g","s">>,
     "67681" >>,
  \* 'vintage & antique jewelry': '48579'
  << <<"v","i","n","t","a","g","e"," ","&"," ","a","n","t","i","q","u","e"," ","j","e","w","e","l","r","y">>,
     "48579" >>,
  \* 'vintage & antique bracelets': '10183'
  << <<"v","i","n","t","a","g","e"," ","&"," ","a","n","t","i","q","u","e"," ","b","r","a","c","e","l","e","t","s">>,
     "10183" >>,
  \* 'vintage & antique earrings': '10192'
  << <<"v","i","n","t","a","g","e"," ","&"," ","a","n","t","i","q","u","e"," ","e","a","r","r","i","n","g","s">>,
     "10192" >>,
  \* 'vintage & antique necklaces & pendants': '10120'
  << <<"v","i","n","t","a","g","e"," ","&"," ","a","n","t","i","q","u","e"," ","n","e","c","k","l","a","c","e","s"," ","&"," ","p","e","n","d","a","n","t","s">>,
     "10120" >>,
  \* 'vintage & antique rings': '10196'
  << <<"v","i","n","t","a","g","e"," ","&"," ","a","n","t","i","q","u","e"," ","r","i","n","g","s">>,
     "10196" >> >>

CATEGORY_SKU_MAPPING ==
  [k \in {CategoryTable[i][1] : i \in 1..Len(CategoryTable)} |->
     CategoryTable[CHOOSE i \in 1..Len(CategoryTable) : CategoryTable[i][1] = k][2]]

DEFAULT_SKU == "DEFAULT-SKU"

\* The label names the vision service can return: "Fine Rings" and
\* "fine jewelry" are keys of the table once lower-cased; "Ring" and "Jewelry"
\* are only parts of keys.
KeywordNames == { <<"F","i","n","e"," ","R","i","n","g","s">>, <<"f","i","n","e"," ","j","e","w","e","l","r","y">>,
                  <<"R","i","n","g">>, <<"J","e","w","e","l","r","y">> }

\* The sequences of at most n elements of S
BoundedSeq(S, n) == UNION {[1..m -> S] : m \in 0..n}

\* The entries a product folder can hold: two normalized images (one with an
\* upper-case extension) and the ledger's CSV file.
FolderNames == { <<"P","r","o","d","u","c","t","_","0","0","0","0","1","_","I","m","a","g","e","_","0","1",".","p","n","g">>, <<"P","r","o","d","u","c","t","_","0","0","0","0","1","_","I","m","a","g","e","_","0","2",".","J","P","G">>, <<"p","r","o","c","e","s","s","e","d","_","i","m","a","g","e","s",".","c","s","v">> }

\* get_sku_from_keywords without the lower() of line 57
RECURSIVE get_sku_without_lower(_, _)
get_sku_without_lower(table, kws) ==
  IF kws = <<>> THEN DEFAULT_SKU
  ELSE IF Head(kws) \in DOMAIN table
       THEN table[Head(kws)]
       ELSE get_sku_without_lower(table, Tail(kws))

\* get_sku_from_keywords: the loop over keywords, first match returns
RECURSIVE get_sku_from_keywords(_, _)
get_sku_from_keywords(table, kws) ==
  IF kws = <<>> THEN DEFAULT_SKU
  ELSE LET category == Lower(Head(kws))
       IN IF category \in DOMAIN table
          THEN table[category]
          ELSE get_sku_from_keywords(table, Tail(kws))

\* f.lower().endswith(('jpg', 'jpeg', 'png')) (line 87)
IsListingImage(f) ==
  \E suffix \in { <<"j","p","g">>, <<"j","p","e","g">>, <<"p","n","g">> } : EndsWith(Lower(f), suffix)

\* image_files of process_folder, as a collection (line 87)
ImageFiles(names) == {f \in names : IsListingImage(f)}

\* the test of line 88 with the limit off by one
NotEnoughImagesBelowOne(image_files) == Cardinality(image_files) < 1

\* the test of line 88
NotEnoughImages(image_files) == Cardinality(image_files) < 2

\* main's except clause: one error line for the folder (lines 183-184)
FolderException(log) ==
  [log EXCEPT !.lines = Append(@, "error: Error processing folder")]

\* What the environment can make of analyze_images_with_rekognition: both
\* detect_labels calls answer, or the first or the second raises.
VisionOutcomes == {"ok", "first_call_raises", "second_call_raises"}

\* What the environment can make of lines 95-107: the completion call raises,
\* its text is not the JSON object expected, the template cannot be read, or
\* the listing file is written.
GenerateOutcomes == {"ok", "completion_raises", "malformed_text", "template_unreadable"}

\* What the environment can make of upload_to_ebay: specifics has no
\* 'category_id', ebay_api.execute raises, or it returns with Ack 'Success' or
\* with another Ack.
SdkOutcomes == {"no_category_id", "transport_error", "ack_success", "ack_failure"}

\* upload_to_ebay with the execute call wrapped in a try statement that logs
\* the error and returns
upload_to_ebay_catching(outcome) ==
  CASE outcome = "no_category_id" ->
         [raised |-> TRUE, calls |-> 0, lines |-> <<>>]
    [] outcome = "transport_error" ->
         [raised |-> FALSE, calls |-> 1, lines |-> <<"error: Failed to list item">>]
    [] outcome = "ack_success" ->
         [raised |-> FALSE, calls |-> 1, lines |-> <<"info: Successfully listed item">>]
    [] outcome = "ack_failure" ->
         [raised |-> FALSE, calls |-> 1, lines |-> <<"error: Failed to list item">>]

\* upload_to_ebay: whether an exception leaves it, the number of execute calls
\* and the lines it logs. There is no try statement in the function.
upload_to_ebay(outcome) ==
  CASE outcome = "no_category_id" ->
         [raised |-> TRUE, calls |-> 0, lines |-> <<>>]
    [] outcome = "transport_error" ->
         [raised |-> TRUE, calls |-> 1, lines |-> <<>>]
    [] outcome = "ack_success" ->
         [raised |-> FALSE, calls |-> 1, lines |-> <<"info: Successfully listed item">>]
    [] outcome = "ack_failure" ->
         [raised |-> FALSE, calls |-> 1, lines |-> <<"error: Failed to list item">>]

\* The normalization run is not running.
NormalizationIdle ==
  /\ phase = "off"
  /\ numDirs = 0
  /\ NormalizationStart

\* anyalize.main up to the for loop: both directories exist (lines 169-178).
ListingInit ==
  /\ NormalizationIdle
  /\ lphase = "walk"
  /\ numFolders \in 0..MaxFolders
  /\ folderIdx = 0
  /\ mapping = CATEGORY_SKU_MAPPING
  /\ folder = {}
  /\ keywords = <<>>
  /\ sku = NoSku
  /\ listings = {}
  /\ flog = NoLog
  /\ upload = "none"
  /\ skipped = 0

\* main takes the next folder and process_folder lists it; with fewer than two
\* image files it logs one error and returns (lines 180-182, 87-90).
TakeFolder ==
  /\ lphase = "walk"
  /\ folderIdx < numFolders
  /\ folderIdx' = folderIdx + 1
  /\ keywords' = <<>>
  /\ sku' = NoSku
  /\ upload' = "none"
  /\ \E names \in SUBSET FolderNames :
       /\ folder' = names
       /\ IF NotEnoughImages(ImageFiles(names))
          THEN /\ flog' = [NoLog EXCEPT !.lines = <<"error: Not enough images">>,
                                        !.listingsBefore = listings]
               /\ lphase' = "walk"
               /\ skipped' = skipped + 1
          ELSE /\ flog' = [NoLog EXCEPT !.listingsBefore = listings]
               /\ lphase' = "analyze"
               /\ skipped' = skipped
  /\ UNCHANGED <<numFolders, mapping, listings, nvars>>

\* analyze_images_with_rekognition on the first two images, then
\* get_sku_from_keywords (lines 92-94)
Analyze ==
  /\ lphase = "analyze"
  /\ \E outcome \in VisionOutcomes :
       CASE outcome = "first_call_raises" ->
              /\ flog' = FolderException([flog EXCEPT !.vision = 1])
              /\ lphase' = "walk"
              /\ UNCHANGED <<keywords, sku>>
         [] outcome = "second_call_raises" ->
              /\ flog' = FolderException([flog EXCEPT !.vision = 2])
              /\ lphase' = "walk"
              /\ UNCHANGED <<keywords, sku>>
         [] outcome = "ok" ->
              \E kws \in BoundedSeq(KeywordNames, MaxKeywords) :
                /\ keywords' = kws
                /\ sku' = get_sku_from_keywords(mapping, kws)
                /\ flog' = [flog EXCEPT !.vision = 2]
                /\ lphase' = "generate"
  /\ UNCHANGED <<numFolders, folderIdx, mapping, folder, listings, upload, skipped, nvars>>

\* generate_text_data, json.loads, fill_html_template and the write of
\* <sku>_listing.html (lines 95-109)
Generate ==
  /\ lphase = "generate"
  /\ \E outcome \in GenerateOutcomes :
       IF outcome = "ok"
       THEN /\ listings' = listings \cup {sku}
            /\ flog' = [flog EXCEPT !.text = 1,
                                    !.lines = Append(@, "info: Processed and saved")]
            /\ lphase' = "upload"
       ELSE /\ listings' = listings
            /\ flog' = FolderException([flog EXCEPT !.text = 1])
            /\ lphase' = "walk"
  /\ UNCHANGED <<numFolders, folderIdx, mapping, folder, keywords, sku, upload, skipped,
                 nvars>>

\* process_folder calls upload_to_ebay as its last statement; an exception
\* that leaves it leaves process_folder too and reaches main's except clause
\* (lines 111, 113-166, 181-184).
Upload ==
  /\ lphase = "upload"
  /\ \E outcome \in SdkOutcomes :
       LET r == upload_to_ebay(outcome)
           logged == [flog EXCEPT !.ebay = r.calls, !.sdk = outcome,
                                  !.lines = @ \o r.lines]
       IN /\ upload' = IF r.raised THEN "raised" ELSE "returned"
          /\ flog' = IF r.raised THEN FolderException(logged) ELSE logged
  /\ lphase' = "walk"
  /\ UNCHANGED <<numFolders, folderIdx, mapping, folder, keywords, sku, listings, skipped,
                 nvars>>

\* the for loop of anyalize.main ends (line 180)
FinishListing ==
  /\ lphase = "walk"
  /\ folderIdx = numFolders
  /\ lphase' = "done"
  /\ UNCHANGED <<numFolders, folderIdx, mapping, folder, keywords, sku, listings, flog,
                 upload, skipped, nvars>>

ListingNext == TakeFolder \/ Analyze \/ Generate \/ Upload \/ FinishListing

SpecListing == ListingInit /\ [][ListingNext]_vars

----------------------------------------------------------------------------
\* Properties of the normalization run (specification Spec).

\* A directory has been entered and process_directory is no longer running.
DirectoryLeft == phase # "dir" /\ dirIdx >= 1

\* The rows the current directory has added to the ledger.
RowsAdded == SubSeq(ledger, ledgerStart + 1, Len(ledger))

\* C1: the n-th discovered directory is processed with product id n, whether or
\* not processing an earlier directory raised; so no two directories share an id.
C1_IdsAdvanceRegardless ==
  /\ \A n \in 1..Len(usedIds) : usedIds[n] = n
  /\ \A m, n \in 1..Len(usedIds) : usedIds[m] = usedIds[n] => m = n

\* C2: every output file has a ledger row with its name and the target
\* dimensions, there are as many rows as output files, and each process_image
\* call either returned True having added one file and one row, or returned
\* False having added neither.
C2_OneFileOneRowOrNothing ==
  /\ \A f \in outFiles :
       \E i \in 1..Len(ledger) :
         /\ ledger[i].FileName = f
         /\ ledger[i].Width = TARGET_WIDTH
         /\ ledger[i].Height = TARGET_HEIGHT
  /\ Len(ledger) = Cardinality(outFiles)
  /\ lastRet.ret = "True" =>
       /\ Len(ledger) = lastRet.rows + 1
       /\ ledger[Len(ledger)].FileName \in outFiles
       /\ outFiles \ lastRet.files \subseteq {ledger[Len(ledger)].FileName}
  /\ lastRet.ret = "False" =>
       /\ Len(ledger) = lastRet.rows
       /\ outFiles = lastRet.files

\* C3: a failing file, a failing conversion included, is the only file skipped:
\* once process_directory is left, its loop has reached every file of the
\* listing (the loop stands behind the listing, or the file it raised on is
\* the last one).
C3_FailureSkipsOnlyThatFile ==
  DirectoryLeft =>
    /\ Len(listing) = Cardinality(entries)
    /\ \A i \in 1..Len(listing) : i < pos \/ (raised /\ i = pos)

\* A directory whose only entry is a supported-extension image has been left.
SingleImageDirectoryLeft ==
  /\ DirectoryLeft
  /\ Cardinality(entries) = 1
  /\ \A f \in entries : SplitExt(Lower(f)) \in SUPPORTED_IMAGE_TYPES

\* C7 as stated: a folder with a single image is skipped: no ledger row and no
\* output file is produced for it, and the product id advances by one.
C7_SingleImageSkipped ==
  SingleImageDirectoryLeft =>
    /\ Len(ledger) = ledgerStart
    /\ outFiles = filesStart
    /\ product_id = usedIds[dirIdx] + 1

\* C7 amended: a folder whose only entry is a supported-extension image is not
\* skipped: process_image is called on the image once; when the call returns
\* True the folder has exactly one ledger row, for Product_<p>_Image_01.png, and
\* that file exists; when it returns False the folder has no ledger row; and
\* the product id advances by one either way.
C7_SingleImageProcessed ==
  SingleImageDirectoryLeft =>
    LET p == usedIds[dirIdx]
    IN /\ attempts = 1
       /\ product_id = p + 1
       /\ lastRet.ret = "True" =>
            /\ Len(RowsAdded) = 1
            /\ RowsAdded[1].ProductID = p
            /\ RowsAdded[1].FileName = OutputFileName(p, 1)
            /\ OutputFileName(p, 1) \in outFiles
       /\ lastRet.ret = "False" => Len(ledger) = ledgerStart

\* C7 witness: a single-image folder was normalized (one row, one file) as the
\* second product of the run.
C7_Witness ==
  /\ SingleImageDirectoryLeft
  /\ lastRet.ret = "True"
  /\ usedIds[dirIdx] = 2
  /\ Len(RowsAdded) = 1

\* C8: the product count written to the summary is the number of discovered
\* directories in which at least one process_image call returned True,
\* directories that ended in an exception included.
C8_SummaryCountsYieldingDirectories ==
  summary # NoSummary => summary = <<yielded>>

\* C9: no two ledger rows share ProductID and FileName (a row is appended by
\* every successful process_image call, so no output file of a product is
\* written by two successful calls).
C9_FileNameUniquePerProduct ==
  \A i, j \in 1..Len(ledger) :
    (ledger[i].ProductID = ledger[j].ProductID /\ ledger[i].FileName = ledger[j].FileName)
      => i = j

\* C10: in a directory processed with id p in which k files were normalized
\* successfully, image_index is k + 1 and the rows added are those of
\* Product_<p>_Image_01 .. Product_<p>_Image_<k>, one per successful file, in the
\* sorted order of the source files; with p = 1 and three successes these are
\* Product_00001_Image_01.png, _02.png and _03.png.
C10_IndexesWithoutGaps ==
  dirIdx >= 1 =>
    LET p == usedIds[dirIdx]
        k == Len(dirOk)
    IN /\ image_index = k + 1
       /\ Len(RowsAdded) = k
       /\ \A i \in 1..k :
            /\ RowsAdded[i].ProductID = p
            /\ RowsAdded[i].FileName = OutputFileName(p, i)
            /\ Len(RowsAdded[i].FileName) = 26
       /\ \A i, j \in 1..k : i < j => StrLess(dirOk[i], dirOk[j])
       /\ \A i \in 1..k : \E n \in 1..Len(listing) : listing[n] = dirOk[i]
       /\ (p = 1 /\ k = 3) =>
            /\ RowsAdded[1].FileName = <<"P","r","o","d","u","c","t","_","0","0","0","0","1","_","I","m","a","g","e","_","0","1",".","p","n","g">>
            /\ RowsAdded[2].FileName = <<"P","r","o","d","u","c","t","_","0","0","0","0","1","_","I","m","a","g","e","_","0","2",".","p","n","g">>
            /\ RowsAdded[3].FileName = <<"P","r","o","d","u","c","t","_","0","0","0","0","1","_","I","m","a","g","e","_","0","3",".","p","n","g">>

\* C10 witness: in the second product's directory the first file failed and the
\* two later files succeeded, so Image_01 and Image_02 name the second and the
\* third source file.
C10_Witness ==
  /\ dirIdx = 2
  /\ usedIds[dirIdx] = 2
  /\ attempts = 3
  /\ Len(dirOk) = 2
  /\ dirOk[1] = listing[2]
  /\ dirOk[2] = listing[3]

----------------------------------------------------------------------------
\* Properties of the listing run (specification SpecListing).

\* upload_to_ebay has been called for the last folder taken and the SDK call
\* answered or raised.
MarketplaceAnswered == flog.sdk \in {"ack_success", "ack_failure", "transport_error"}

\* C4 as stated: whatever the SDK call does (Ack 'Success', another Ack, a
\* transport error), upload_to_ebay logs the outcome itself and returns
\* normally, so no exception from the submission reaches process_folder.
C4_PublisherNeverPropagates ==
  MarketplaceAnswered =>
    /\ upload = "returned"
    /\ flog.lines[Len(flog.lines)] \in {"info: Successfully listed item",
                                        "error: Failed to list item"}

\* C4 amended: on Ack 'Success' upload_to_ebay logs success and returns, on any
\* other Ack it logs the failure and returns; a transport error raised by the
\* SDK call is not caught in upload_to_ebay: it leaves upload_to_ebay and
\* process_folder and is logged, once, by main's per-folder handler, and main
\* goes on with the next folder.
C4_TransportErrorReachesMain ==
  MarketplaceAnswered =>
    /\ flog.ebay = 1
    /\ lphase \in {"walk", "done"}
    /\ flog.sdk = "ack_success" =>
         /\ upload = "returned"
         /\ flog.lines = <<"info: Processed and saved", "info: Successfully listed item">>
    /\ flog.sdk = "ack_failure" =>
         /\ upload = "returned"
         /\ flog.lines = <<"info: Processed and saved", "error: Failed to list item">>
    /\ flog.sdk = "transport_error" =>
         /\ upload = "raised"
         /\ flog.lines = <<"info: Processed and saved", "error: Error processing folder">>

\* C4 witness: the SDK call raised for the first of two folders, the exception
\* left upload_to_ebay and main stands ready to take the second folder.
C4_Witness ==
  /\ flog.sdk = "transport_error"
  /\ upload = "raised"
  /\ folderIdx = 1
  /\ numFolders = 2
  /\ lphase = "walk"

\* the entries of the dict literal, as a set of <<key, value>> pairs, and its keys
TableEntries == {CategoryTable[n] : n \in 1..Len(CategoryTable)}
TableKeys == {e[1] : e \in TableEntries}

\* the positions of the keywords whose lower-cased form is a key of the table
KeywordHits == {i \in 1..Len(keywords) : Lower(keywords[i]) \in TableKeys}

\* C5: the SKU computed for a keyword sequence is the table's value for the
\* first keyword whose lower-cased form is exactly a key, and 'DEFAULT-SKU' if
\* and only if no keyword's lower-cased form is a key; the table is never
\* modified. For ["Ring", "Fine Rings"] it is the SKU of 'fine rings', 164343.
C5_FirstExactMatchOrDefault ==
  /\ lphase # "off" => mapping = CATEGORY_SKU_MAPPING
  /\ sku # NoSku =>
       /\ KeywordHits = {} <=> sku = DEFAULT_SKU
       /\ KeywordHits # {} =>
            LET first == CHOOSE i \in KeywordHits : \A j \in KeywordHits : i <= j
            IN <<Lower(keywords[first]), sku>> \in TableEntries
       /\ keywords = << <<"R","i","n","g">>, <<"F","i","n","e"," ","R","i","n","g","s">> >> => sku = "164343"

\* C5 witness: the first keyword is only a part of a key and the second is a
\* key once lower-cased; the SKU is the second keyword's.
C5_Witness ==
  /\ keywords = << <<"R","i","n","g">>, <<"F","i","n","e"," ","R","i","n","g","s">> >>
  /\ sku = "164343"

\* C6: a folder with fewer than two image files (names passing the test of
\* line 87) is skipped: exactly one error is logged for it, no vision,
\* text-generation or marketplace call is made, no listing file is written, and
\* main stands in its loop, ready for the next folder.
C6_SmallFolderSkipped ==
  (folderIdx >= 1 /\ Cardinality({f \in folder : IsListingImage(f)}) < 2) =>
    /\ flog.lines = <<"error: Not enough images">>
    /\ flog.vision = 0
    /\ flog.text = 0
    /\ flog.ebay = 0
    /\ listings = flog.listingsBefore
    /\ sku = NoSku
    /\ upload = "none"
    /\ lphase \in {"walk", "done"}

\* C6 witness: the second folder holds one image and is skipped after the first
\* folder was skipped too: the walk went on after a skip.
C6_Witness ==
  /\ folderIdx = 2
  /\ skipped = 2
  /\ Cardinality({f \in folder : IsListingImage(f)}) = 1
  /\ flog.lines = <<"error: Not enough images">>
  /\ lphase = "walk"

====
